---- MODULE Spec2Model ----
(***************************************************************************)
(* Model of excel_automation.py: the pandas pipeline functions load_data,  *)
(* clean_data, validate_with_sql, generate_report, and the Streamlit       *)
(* script that calls them.                                                 *)
(*                                                                         *)
(* A DataFrame is a record [names, dtypes, rows]: column names, the pandas *)
(* dtype of each column ("float64" or "object") and the rows, each a       *)
(* sequence of cells aligned with names.  A cell is a number (an exact     *)
(* rational n/d in lowest terms; float rounding is not modelled), a string *)
(* or the missing marker (NaN / None).                                     *)
(***************************************************************************)
EXTENDS Integers, Sequences, FiniteSets, TLC

VARIABLES
    uploaded_file,  \* st.file_uploader value: NoFile or a file
    action,         \* st.radio value
    df,             \* the module-level / test-level variable df
    arg,            \* the DataFrame passed to the last pipeline call
    deduped,        \* clean_data's local df after line 54
    err,            \* whether the last pipeline call took its except branch
    stages,         \* the pipeline calls made so far (this script run / test)
    cleaned_file,   \* contents of output/cleaned_data.xlsx
    report_file,    \* contents of output/summary_report.xlsx and the chart
    written,        \* whether this script run wrote cleaned_file
    input,          \* the DataFrame the test started from
    pc,             \* position in the script
    runs            \* number of radio selections made so far

vars == <<uploaded_file, action, df, arg, deduped, err, stages, cleaned_file,
          report_file, written, input, pc, runs>>

------------------------------------------------------------------------------
(* Bounds *)

\* Largest number of rows of a table handed to the functions directly.
MaxRows == 3

\* Largest number of rows of a file uploaded to the Streamlit script.
MaxFileRows == 2

\* Largest number of pipeline calls in one direct-call behaviour.
MaxCalls == 2

\* Largest number of radio selections after the upload.
MaxRuns == 2

------------------------------------------------------------------------------
(* Cells *)

NA == [k |-> "na", n |-> 0, d |-> 1, s |-> ""]

Str(s) == [k |-> "str", n |-> 0, d |-> 1, s |-> s]

Abs(x) == IF x < 0 THEN -x ELSE x

RECURSIVE Gcd(_, _)
Gcd(a, b) == IF b = 0 THEN a ELSE Gcd(b, a % b)

\* The number n/d (d > 0) in lowest terms.
Rat(n, d) ==
    LET g == Gcd(Abs(n), d)
    IN  [k |-> "num", n |-> n \div g, d |-> d \div g, s |-> ""]

Num(n) == Rat(n, 1)

RatAdd(a, b) == Rat(a.n * b.d + b.n * a.d, a.d * b.d)

IsNull(c) == c.k = "na"

------------------------------------------------------------------------------
(* DataFrames *)

None == [names |-> <<>>, dtypes |-> <<>>, rows |-> <<>>, none |-> TRUE]

Frame(names, dtypes, rows) ==
    [names |-> names, dtypes |-> dtypes, rows |-> rows, none |-> FALSE]

Cols(t) == 1..Len(t.names)

\* The cells of column j, top to bottom.
Column(rows, j) == [i \in 1..Len(rows) |-> rows[i][j]]

HasColumn(t, name) == \E j \in Cols(t) : t.names[j] = name

ColIndex(t, name) == CHOOSE j \in Cols(t) : t.names[j] = name

\* pandas' type inference when a reader builds a column: a column whose
\* values are all numbers or missing is float64 (an all-empty column too),
\* anything else is object; a frame without rows has object columns.
ReaderDtype(cells) ==
    IF Len(cells) > 0 /\ \A i \in 1..Len(cells) : cells[i].k \in {"num", "na"}
    THEN "float64" ELSE "object"

\* DataFrame.from_records on the rows fetched from SQLite: a column of
\* numbers and NULLs is float64, a column of NULLs only stays object.
RecordsDtype(cells) ==
    IF /\ \E i \in 1..Len(cells) : cells[i].k = "num"
       /\ \A i \in 1..Len(cells) : cells[i].k \in {"num", "na"}
    THEN "float64" ELSE "object"

------------------------------------------------------------------------------
(* load_data *)

\* A file pandas cannot parse.
Unreadable == [names |-> <<>>, rows |-> <<>>, kind |-> "unreadable"]

\* A well-formed workbook or CSV file: a header row and typed cells.
File(names, rows) == [names |-> names, rows |-> rows, kind |-> "file"]

\* The uploader's value before anything is uploaded.
NoFile == [names |-> <<>>, rows |-> <<>>, kind |-> "nofile"]

\* A loader that hands back an empty frame when the read fails.
load_data_empty_on_error(file) ==
    IF file.kind /= "file" THEN [None EXCEPT !.none = FALSE]
    ELSE [names |-> file.names,
          dtypes |-> [j \in 1..Len(file.names) |->
                         IF Len(file.rows) > 0
                            /\ \A i \in 1..Len(file.rows) :
                                  file.rows[i][j].k \in {"num", "na"}
                         THEN "float64" ELSE "object"],
          rows |-> file.rows, none |-> FALSE]

\* pd.read_csv / pd.read_excel; any exception gives None.
load_data(file) ==
    IF file.kind /= "file" THEN None
    ELSE Frame(file.names,
               [j \in 1..Len(file.names) |-> ReaderDtype(Column(file.rows, j))],
               file.rows)

------------------------------------------------------------------------------
(* clean_data *)

\* DataFrame.drop_duplicates(): scan top to bottom, keep a row unless an
\* equal row was seen before (missing markers compare equal).
RECURSIVE DropDupRows(_, _)
DropDupRows(rows, seen) ==
    IF rows = <<>> THEN <<>>
    ELSE IF Head(rows) \in seen THEN DropDupRows(Tail(rows), seen)
    ELSE <<Head(rows)>> \o DropDupRows(Tail(rows), seen \cup {Head(rows)})

\* A dedup keyed on the first column only.
drop_duplicates_first_col(t) ==
    LET keep == {i \in 1..Len(t.rows) :
                    \A j \in 1..(i - 1) : t.rows[j][1] /= t.rows[i][1]}
        F[i \in 0..Len(t.rows)] ==
            IF i = 0 THEN <<>>
            ELSE IF i \in keep THEN Append(F[i - 1], t.rows[i]) ELSE F[i - 1]
    IN  [t EXCEPT !.rows = F[Len(t.rows)]]

\* drop_duplicates(keep="last"): the last occurrence of each row survives.
RECURSIVE DropDupRowsLast(_)
DropDupRowsLast(rows) ==
    IF rows = <<>> THEN <<>>
    ELSE IF \E i \in 2..Len(rows) : rows[i] = Head(rows)
         THEN DropDupRowsLast(Tail(rows))
         ELSE <<Head(rows)>> \o DropDupRowsLast(Tail(rows))

drop_duplicates_keep_last(t) == [t EXCEPT !.rows = DropDupRowsLast(t.rows)]

\* A dedup that was left out.
drop_duplicates_noop(t) == t

drop_duplicates(t) == [t EXCEPT !.rows = DropDupRows(t.rows, {})]

RECURSIVE SumCells(_)
SumCells(cells) ==
    IF cells = <<>> THEN Num(0)
    ELSE IF IsNull(Head(cells)) THEN SumCells(Tail(cells))
    ELSE RatAdd(Head(cells), SumCells(Tail(cells)))

CountCells(cells) == Cardinality({i \in 1..Len(cells) : ~IsNull(cells[i])})

\* A mean that is 0 for a column without values.
MeanZero(cells) ==
    IF CountCells(cells) = 0 THEN Num(0)
    ELSE LET sum == SumCells(cells) IN Rat(sum.n, sum.d * CountCells(cells))

\* Series.mean(): the mean of the non-missing values, NaN when there are none.
Mean(cells) ==
    IF CountCells(cells) = 0 THEN NA
    ELSE LET sum == SumCells(cells) IN Rat(sum.n, sum.d * CountCells(cells))

\* select_dtypes(include=["int64", "float64"]).columns
numeric_cols(t) == {j \in Cols(t) : t.dtypes[j] = "float64"}

\* select_dtypes(include=["object"]).columns
text_cols(t) == {j \in Cols(t) : t.dtypes[j] = "object"}

\* df[numeric_cols] = df[numeric_cols].fillna(df[numeric_cols].mean()):
\* a missing cell takes its column's mean; a NaN mean fills nothing.
FillNumeric(t) ==
    [t EXCEPT !.rows =
        [i \in 1..Len(t.rows) |->
            [j \in Cols(t) |->
                IF j \in numeric_cols(t) /\ IsNull(t.rows[i][j])
                THEN Mean(Column(t.rows, j))
                ELSE t.rows[i][j]]]]

\* A text fill that forgets the fallback string.
FillTextNoop(t) == t

\* df[text_cols] = df[text_cols].fillna("Unknown")
FillText(t) ==
    [t EXCEPT !.rows =
        [i \in 1..Len(t.rows) |->
            [j \in Cols(t) |->
                IF j \in text_cols(t) /\ IsNull(t.rows[i][j])
                THEN Str("Unknown")
                ELSE t.rows[i][j]]]]

\* Where an exception may be raised inside clean_data's try block.
FaultPoints == {"none", "dedup", "numfill", "textfill"}

\* The value clean_data returns.  The name df is rebound at line 54 and the
\* frame it then names is filled in place at lines 58 and 62, so the except
\* branch's `return df` returns whatever the steps before the fault built.
clean_data(t, fault) ==
    IF fault = "dedup" THEN t
    ELSE LET d1 == drop_duplicates(t) IN
         IF fault = "numfill" THEN d1
         ELSE LET d2 == FillNumeric(d1) IN
              IF fault = "textfill" THEN d2 ELSE FillText(d2)

\* clean_data's local df right after line 54 (the argument itself when
\* drop_duplicates raised).
clean_deduped(t, fault) == IF fault = "dedup" THEN t ELSE drop_duplicates(t)

------------------------------------------------------------------------------
(* validate_with_sql *)

\* The SQL column type pandas' to_sql declares for a column (SQLite
\* fallback): REAL for float64; for object columns by the inferred type of
\* the values, INTEGER if all are integers, TEXT otherwise (strings, mixed,
\* empty).
SqlType(t, j) ==
    IF t.dtypes[j] = "float64" THEN "REAL"
    ELSE LET cells == Column(t.rows, j) IN
         IF /\ \E i \in 1..Len(cells) : cells[i].k = "num"
            /\ \A i \in 1..Len(cells) : cells[i].k \in {"num", "na"}
         THEN "INTEGER" ELSE "TEXT"

\* SQLite's rendering of a number stored into a TEXT column: an integer as
\* its digits.  (A non-integer is rendered as a fraction here, not as a
\* decimal; only integers occur in object columns.)
NumText(c) ==
    IF c.d = 1 THEN ToString(c.n) ELSE ToString(c.n) \o "/" \o ToString(c.d)

\* What SQLite stores for a cell and hands back on SELECT: a column with
\* TEXT affinity converts a number to its text form; NaN / None is NULL.
StoreCell(sqltype, c) ==
    IF sqltype = "TEXT" /\ c.k = "num" THEN Str(NumText(c)) ELSE c

\* WHERE Amount IS NOT NULL
WhereAmountNotNull(c) == c.k /= "na"

\* WHERE Amount >= 0 on a stored cell: NULL >= 0 is NULL (row dropped); a
\* number is compared by value.  (A stored string compares as text against
\* '0'; every string of this model's tables sorts after '0'.)
WhereAmount(c) ==
    CASE c.k = "na"  -> FALSE
      [] c.k = "num" -> c.n >= 0
      [] OTHER       -> TRUE

\* The rows of `rows` whose cell a passes WHERE, in scan (rowid) order.
RECURSIVE SelectRows(_, _)
SelectRows(rows, a) ==
    IF rows = <<>> THEN <<>>
    ELSE IF WhereAmount(Head(rows)[a])
         THEN <<Head(rows)>> \o SelectRows(Tail(rows), a)
         ELSE SelectRows(Tail(rows), a)

\* df.to_sql("data", conn): the table SQLite holds.
to_sql(t) ==
    [i \in 1..Len(t.rows) |->
        [j \in Cols(t) |-> StoreCell(SqlType(t, j), t.rows[i][j])]]

\* pd.read_sql_query(query, conn) on the stored table.
read_sql_query(t) ==
    LET rows == SelectRows(to_sql(t), ColIndex(t, "Amount"))
    IN  Frame(t.names,
              [j \in Cols(t) |-> RecordsDtype(Column(rows, j))],
              rows)

\* The query raises "no such column: Amount" when the table has no such
\* column.
QueryFails(t) == ~HasColumn(t, "Amount")

\* A validator whose except branch returns an empty result.
validate_with_sql_drop_all(t) ==
    IF QueryFails(t) THEN [t EXCEPT !.rows = <<>>] ELSE read_sql_query(t)

\* The value validate_with_sql returns: the query's result, or the argument
\* itself from the except branch.
validate_with_sql(t) == IF QueryFails(t) THEN t ELSE read_sql_query(t)

------------------------------------------------------------------------------
(* generate_report *)

\* What generate_report writes: the describe() table (its shape only) and
\* whether the Amount histogram was drawn.
generate_report(t) ==
    [columns |-> t.names, count |-> Len(t.rows),
     histogram |-> HasColumn(t, "Amount")]

NoReport == [columns |-> <<>>, count |-> 0, histogram |-> FALSE]

------------------------------------------------------------------------------
(* Input tables *)

SeqsUpTo(S, n) == UNION {[1..k -> S] : k \in 0..n}

\* A sheet with the designated column and a column of text and numbers.
NamesA == <<"Amount", "Category">>

RowsA ==
    {<<a, c>> : a \in {Num(100), Num(0), Num(-50), NA},
                c \in {Str("A"), Num(7), NA}}

\* A sheet without the designated column, with two numeric columns.
NamesB == <<"Name", "Qty", "Price">>

RowsB ==
    {<<n, q, p>> : n \in {Str("Bob"), NA},
                   q \in {Num(1), Num(2), NA},
                   p \in {Num(10), NA}}

\* The fixture sample_df of the tests.
SampleFile ==
    File(<<"Name", "Amount", "Category">>,
         << <<Str("Alice"), Num(100), Str("A")>>,
            <<Str("Bob"),   Num(-50), NA>>,
            <<Str("Alice"), NA,       Str("B")>>,
            <<NA,           Num(200), Str("C")>> >>)

FilesUpTo(n) ==
    {File(NamesA, r) : r \in SeqsUpTo(RowsA, n)}
        \cup {File(NamesB, r) : r \in SeqsUpTo(RowsB, n)}
        \cup {SampleFile}

\* The frames the functions are called with directly.
Tables == {load_data(f) : f \in FilesUpTo(MaxRows)}

\* The files a user may upload.
Files == FilesUpTo(MaxFileRows) \cup {Unreadable}

Last(s) == s[Len(s)]

------------------------------------------------------------------------------
(* The functions called directly, as the tests call them *)

FnInit ==
    /\ input \in Tables
    /\ df = input
    /\ arg = input
    /\ deduped = input
    /\ err = FALSE
    /\ stages = <<>>
    /\ uploaded_file = NoFile
    /\ action = "Clean Data"
    /\ cleaned_file = None
    /\ report_file = NoReport
    /\ written = FALSE
    /\ pc = "test"
    /\ runs = 0

\* df = clean_data(df)
FnClean ==
    /\ Len(stages) < MaxCalls
    /\ arg' = df
    /\ df' = clean_data(df, "none")
    /\ deduped' = clean_deduped(df, "none")
    /\ err' = FALSE
    /\ stages' = Append(stages, "clean")
    /\ UNCHANGED <<uploaded_file, action, cleaned_file, report_file, written,
                   input, pc, runs>>

\* df = validate_with_sql(df)
FnValidate ==
    /\ Len(stages) < MaxCalls
    /\ arg' = df
    /\ df' = validate_with_sql(df)
    /\ err' = QueryFails(df)
    /\ stages' = Append(stages, "validate")
    /\ UNCHANGED <<uploaded_file, action, deduped, cleaned_file, report_file,
                   written, input, pc, runs>>

FnNext == FnClean \/ FnValidate

FnSpec == FnInit /\ [][FnNext]_vars

------------------------------------------------------------------------------
(* The Streamlit script *)

Actions == {"Clean Data", "Validate Data", "Transform Data", "Generate Report"}

Init ==
    /\ uploaded_file = NoFile
    /\ action = "Clean Data"
    /\ df = None
    /\ arg = None
    /\ deduped = None
    /\ err = FALSE
    /\ stages = <<>>
    /\ cleaned_file = None
    /\ report_file = NoReport
    /\ written = FALSE
    /\ input = None
    /\ pc = "start"
    /\ runs = 0

\* Lines 164-165: nothing uploaded, the script only shows the hint.
ScriptNoFile ==
    /\ pc = "start"
    /\ uploaded_file = NoFile
    /\ pc' = "idle"
    /\ stages' = <<>>
    /\ written' = FALSE
    /\ UNCHANGED <<uploaded_file, action, df, arg, deduped, err, cleaned_file,
                   report_file, input, runs>>

\* The user uploads a file (one per session); Streamlit reruns the script.
Upload ==
    /\ pc = "idle"
    /\ uploaded_file = NoFile
    /\ \E f \in Files : uploaded_file' = f
    /\ pc' = "start"
    /\ UNCHANGED <<action, df, arg, deduped, err, stages, cleaned_file,
                   report_file, written, input, runs>>

\* The user picks another radio option; Streamlit reruns the script.
SelectAction(a) ==
    /\ pc = "idle"
    /\ uploaded_file /= NoFile
    /\ df /= None
    /\ runs < MaxRuns
    /\ a /= action
    /\ action' = a
    /\ runs' = runs + 1
    /\ pc' = "start"
    /\ UNCHANGED <<uploaded_file, df, arg, deduped, err, stages, cleaned_file,
                   report_file, written, input>>

\* Lines 120-124: df = load_data(uploaded_file); a failed load ends the run.
LoadData ==
    /\ pc = "start"
    /\ uploaded_file /= NoFile
    /\ df' = load_data(uploaded_file)
    /\ err' = (df' = None)
    /\ stages' = IF df' = None THEN <<"load_failed">> ELSE <<"load">>
    /\ pc' = IF df' = None THEN "idle" ELSE "loaded"
    /\ written' = FALSE
    /\ UNCHANGED <<uploaded_file, action, arg, deduped, cleaned_file,
                   report_file, input, runs>>

\* Lines 132-135 and 144-147: df = clean_data(df), then df.to_excel(...).
RunCleaner(fault) ==
    /\ arg' = df
    /\ df' = clean_data(df, fault)
    /\ deduped' = clean_deduped(df, fault)
    /\ err' = (fault /= "none")
    /\ stages' = Append(stages, "clean")
    /\ cleaned_file' = df'
    /\ written' = TRUE
    /\ pc' = "idle"
    /\ UNCHANGED <<uploaded_file, action, report_file, input, runs>>

ActClean ==
    /\ pc = "loaded"
    /\ action = "Clean Data"
    /\ \E fault \in FaultPoints : RunCleaner(fault)

ActTransform ==
    /\ pc = "loaded"
    /\ action = "Transform Data"
    /\ \E fault \in FaultPoints : RunCleaner(fault)

\* Lines 137-141: df = validate_with_sql(df), then df.to_excel(...).
ActValidate ==
    /\ pc = "loaded"
    /\ action = "Validate Data"
    /\ arg' = df
    /\ df' = validate_with_sql(df)
    /\ err' = QueryFails(df)
    /\ stages' = Append(stages, "validate")
    /\ cleaned_file' = df'
    /\ written' = TRUE
    /\ pc' = "idle"
    /\ UNCHANGED <<uploaded_file, action, deduped, report_file, input, runs>>

\* Lines 149-151: generate_report(df); df and the cleaned file are untouched.
ActReport ==
    /\ pc = "loaded"
    /\ action = "Generate Report"
    /\ arg' = df
    /\ report_file' = generate_report(df)
    /\ err' = FALSE
    /\ stages' = Append(stages, "report")
    /\ pc' = "idle"
    /\ UNCHANGED <<uploaded_file, action, df, deduped, cleaned_file, written,
                   input, runs>>

Next ==
    \/ ScriptNoFile
    \/ Upload
    \/ \E a \in Actions : SelectAction(a)
    \/ LoadData
    \/ ActClean
    \/ ActTransform
    \/ ActValidate
    \/ ActReport

Spec == Init /\ [][Next]_vars

------------------------------------------------------------------------------
(* Vocabulary of the properties *)

LastIs(stage) == stages /= <<>> /\ Last(stages) = stage

NoMissing(t) ==
    \A i \in 1..Len(t.rows) : \A j \in Cols(t) : ~IsNull(t.rows[i][j])

\* Every numeric cell holds a number and every text cell holds a string.
TypedNoMissing(t) ==
    \A i \in 1..Len(t.rows) : \A j \in Cols(t) :
        t.rows[i][j].k = (IF t.dtypes[j] = "float64" THEN "num" ELSE "str")

AllMissing(rows, j) == \A i \in 1..Len(rows) : IsNull(rows[i][j])

HasDuplicate(rows) ==
    \E i, k \in 1..Len(rows) : i < k /\ rows[i] = rows[k]

\* The k-th smallest element of the set of indices I.
Kth(I, k) == CHOOSE i \in I : Cardinality({m \in I : m <= i}) = k

\* out is the sub-sequence of in at the indices I, in order.
IsSubSeqAt(out, in, I) ==
    /\ Len(out) = Cardinality(I)
    /\ \A k \in 1..Len(out) : out[k] = in[Kth(I, k)]

\* out keeps exactly the first occurrence of each distinct row of in.
IsFirstOccurrences(out, in) ==
    IsSubSeqAt(out, in,
               {i \in 1..Len(in) : \A m \in 1..(i - 1) : in[m] /= in[i]})

\* The sum of the integer cells of column j.
IntSum(rows, j) ==
    LET F[i \in 0..Len(rows)] ==
            IF i = 0 THEN 0
            ELSE F[i - 1] + (IF IsNull(rows[i][j]) THEN 0 ELSE rows[i][j].n)
    IN  F[Len(rows)]

NonNegative(c) == c.k = "num" /\ c.n >= 0

------------------------------------------------------------------------------
(* C1 *)

\* C1 as stated: after clean_data no cell of any column is missing; every
\* numeric cell holds a number and every text cell holds a string.
C1_NoMissingAnyTable == LastIs("clean") => NoMissing(df) /\ TypedNoMissing(df)

\* C1, amended: after clean_data no cell of a text (object) column is
\* missing; a numeric column with at least one value in the input holds a
\* number in every cell; a numeric column without any value stays missing.
C1_NoMissingWhereFillable ==
    LastIs("clean") =>
        \A j \in Cols(df) : \A i \in 1..Len(df.rows) :
            IF df.dtypes[j] = "object" THEN ~IsNull(df.rows[i][j])
            ELSE IF AllMissing(arg.rows, j) THEN IsNull(df.rows[i][j])
            ELSE df.rows[i][j].k = "num"

\* A clean_data call that filled a missing number and a missing text cell.
C1_Witness ==
    /\ LastIs("clean")
    /\ \E j \in numeric_cols(arg) : \E i, m \in 1..Len(arg.rows) :
            IsNull(arg.rows[i][j]) /\ ~IsNull(arg.rows[m][j])
    /\ \E j \in text_cols(arg) : \E i \in 1..Len(arg.rows) :
            IsNull(arg.rows[i][j])
    /\ NoMissing(df)

------------------------------------------------------------------------------
(* C2 *)

CleanedTwice ==
    /\ Len(stages) >= 2
    /\ stages[Len(stages)] = "clean"
    /\ stages[Len(stages) - 1] = "clean"

\* C2 as stated: clean_data applied to a clean_data output returns it
\* unchanged.
C2_Idempotent == CleanedTwice => df = arg

\* C2, amended: clean_data applied to a clean_data output returns that
\* output with its duplicate rows removed (first occurrence kept) and
\* nothing else changed; it is the same table when the output has no two
\* equal rows.
C2_SecondCleanOnlyDedups ==
    CleanedTwice =>
        /\ df.names = arg.names
        /\ df.dtypes = arg.dtypes
        /\ IsFirstOccurrences(df.rows, arg.rows)
        /\ (~HasDuplicate(arg.rows) => df = arg)

\* A second clean_data call on an output in which the fill made rows equal.
C2_Witness == CleanedTwice /\ HasDuplicate(arg.rows) /\ df /= arg

------------------------------------------------------------------------------
(* C3 *)

------------------------------------------------------------------------------
(* C4 *)

\* C4: when the table has the column Amount, every row validate_with_sql
\* returns has an Amount that is a number >= 0.
C4_NoNegativeAmount ==
    (LastIs("validate") /\ HasColumn(arg, "Amount")) =>
        \A i \in 1..Len(df.rows) : NonNegative(df.rows[i][ColIndex(df, "Amount")])

\* A validation that dropped a negative Amount and kept a zero Amount.
C4_Witness ==
    /\ LastIs("validate")
    /\ HasColumn(arg, "Amount")
    /\ \E i \in 1..Len(arg.rows) : arg.rows[i][ColIndex(arg, "Amount")] = Num(-50)
    /\ \E i \in 1..Len(df.rows) : df.rows[i][ColIndex(df, "Amount")] = Num(0)

------------------------------------------------------------------------------
(* C5 *)

\* C5: validate_with_sql only drops rows: its result has the same columns
\* and is the sub-sequence of the input's rows whose Amount is >= 0, every
\* retained cell unchanged.
C5_OnlyDropsRows ==
    (LastIs("validate") /\ HasColumn(arg, "Amount")) =>
        /\ df.names = arg.names
        /\ IsSubSeqAt(df.rows, arg.rows,
                      {i \in 1..Len(arg.rows) :
                          NonNegative(arg.rows[i][ColIndex(arg, "Amount")])})

------------------------------------------------------------------------------
(* C6 *)

\* C6: without the column Amount, validate_with_sql returns the table it
\* was given, through its except branch.
C6_AbsentColumnPassThrough ==
    (LastIs("validate") /\ ~HasColumn(arg, "Amount")) => (df = arg /\ err)

\* A validation of a table without Amount that has rows.
C6_Witness ==
    /\ LastIs("validate")
    /\ ~HasColumn(arg, "Amount")
    /\ Len(arg.rows) >= 2
    /\ Len(df.rows) = Len(arg.rows)

------------------------------------------------------------------------------
(* C7 *)

------------------------------------------------------------------------------
(* C8 *)

\* C8: when a numeric column has no value at all, clean_data on the loaded
\* table takes no except branch, leaves that column missing, still removes
\* the duplicate rows, fills every other numeric column that has a value
\* with its mean and every missing text cell with "Unknown".
C8_AllMissingNumericColumn ==
    (stages = <<"clean">>
        /\ \E j \in numeric_cols(arg) : AllMissing(arg.rows, j)) =>
        /\ ~err
        /\ IsFirstOccurrences(deduped.rows, arg.rows)
        /\ Len(df.rows) = Len(deduped.rows)
        /\ \A j \in Cols(arg) : \A i \in 1..Len(df.rows) :
            LET before == deduped.rows[i][j]
                after  == df.rows[i][j]
            IN  IF ~IsNull(before) THEN after = before
                ELSE IF arg.dtypes[j] = "object" THEN after = Str("Unknown")
                ELSE IF AllMissing(arg.rows, j) THEN IsNull(after)
                ELSE /\ after.k = "num"
                     /\ after.n * CountCells(Column(deduped.rows, j))
                            = after.d * IntSum(deduped.rows, j)

\* A clean_data call on a table with an all-missing numeric column, a
\* duplicate row, a numeric cell to fill and a text cell to fill.
C8_Witness ==
    /\ stages = <<"clean">>
    /\ Len(arg.rows) >= 2
    /\ \E j \in numeric_cols(arg) : AllMissing(arg.rows, j)
    /\ Len(df.rows) < Len(arg.rows)
    /\ \E j \in numeric_cols(arg) : \E i \in 1..Len(df.rows) :
            IsNull(deduped.rows[i][j]) /\ df.rows[i][j].k = "num"
    /\ \E j \in text_cols(arg) : \E i \in 1..Len(df.rows) :
            IsNull(deduped.rows[i][j]) /\ df.rows[i][j] = Str("Unknown")

------------------------------------------------------------------------------
(* C9 *)

\* C9: when a step of clean_data faults, the table the script goes on with
\* is the table that was passed in.
C9_FaultLeavesTableUnchanged == (LastIs("clean") /\ err) => df = arg

------------------------------------------------------------------------------
(* C10 *)

StageBefore(later, earlier) ==
    \A i \in 1..Len(stages) :
        stages[i] = later => \E k \in 1..(i - 1) : stages[k] = earlier

Ran(stage) == \E i \in 1..Len(stages) : stages[i] = stage

\* C10 as stated: Validator runs only on a Cleaner output, Reporter only on
\* a Validator output, the cleaned file is written only from a table that
\* passed Cleaner and Validator, and nothing runs after a failed load.
C10_FullPipelineOrder ==
    /\ StageBefore("validate", "clean")
    /\ StageBefore("report", "validate")
    /\ (written => (Ran("clean") /\ Ran("validate")))
    /\ (Ran("load_failed") => stages = <<"load_failed">>)

\* C10, amended: a run is the Loader followed by at most one stage, the one
\* the radio selects (Cleaner, Validator or Reporter), applied to the table
\* as loaded; the cleaned file is written exactly by a Cleaner or Validator
\* run, from that stage's result; nothing runs after a failed load.
C10_OneStagePerRun ==
    /\ stages \in {<<>>, <<"load_failed">>, <<"load">>}
                    \cup {<<"load", s>> : s \in {"clean", "validate", "report"}}
    /\ (pc = "loaded" => stages = <<"load">>)
    /\ (Len(stages) = 2 => arg = load_data(uploaded_file))
    /\ (written <=> stages \in {<<"load", "clean">>, <<"load", "validate">>})
    /\ (written => cleaned_file = df)
    /\ (uploaded_file = Unreadable =>
            (stages \in {<<>>, <<"load_failed">>} /\ ~written /\ pc /= "loaded"))

\* A run that validated the table as loaded and wrote the cleaned file.
C10_Witness ==
    /\ pc = "idle"
    /\ stages = <<"load", "validate">>
    /\ written
    /\ cleaned_file = df

====
